---- MODULE Spec2Model ----
(***************************************************************************)
(* Call Performance Report Generator (src/app.py).                         *)
(*                                                                         *)
(* An uploaded call log (one row per call attempt) is read into a          *)
(* DataFrame and handed to calculate_report, which coerces the outcome     *)
(* column, checks the required columns, normalizes the fields, reduces the *)
(* attempts of every lead (bot, mobile_number) to one latest row,          *)
(* classifies the leads and aggregates ten metrics per bot.                *)
(*                                                                         *)
(* Cells are tuples: a text is the sequence of its characters, NaN/NaT/None*)
(* is <<"NaN">>, a Timestamp is <<"ts", yyyymmdd>>, an integer is          *)
(* <<"int", n>>.  Floats rounded to two decimals are integers counting     *)
(* hundredths.  A DataFrame is [columns, rows], rows being a sequence of   *)
(* functions from the column names to cells.                               *)
(***************************************************************************)
EXTENDS Integers, Sequences, FiniteSets, TLC

VARIABLES upload, tie_order, pc, raw_df, df, all_bots, latest_per_lead,
          sheets_by_category, ret, st_error, first

vars == <<upload, tie_order, pc, raw_df, df, all_bots, latest_per_lead,
          sheets_by_category, ret, st_error, first>>

(***************************************************************************)
(* Texts                                                                   *)
(***************************************************************************)

\* The printable ASCII characters in code point order, 32 (space) to 126 (~);
\* the double quote, the backslash and the backquote (34, 92, 96) only hold their place.
Chars ==
  <<" ", "!", "<34>", "#", "$", "%", "&", "'", "(", ")", "*", "+", ",", "-", ".", "/",
    "0", "1", "2", "3", "4", "5", "6", "7", "8", "9", ":", ";", "<", "=", ">", "?",
    "@", "A", "B", "C", "D", "E", "F", "G", "H", "I", "J", "K", "L", "M", "N", "O",
    "P", "Q", "R", "S", "T", "U", "V", "W", "X", "Y", "Z", "[", "<92>", "]", "^", "_",
    "<96>", "a", "b", "c", "d", "e", "f", "g", "h", "i", "j", "k", "l", "m", "n", "o",
    "p", "q", "r", "s", "t", "u", "v", "w", "x", "y", "z", "{", "|", "}", "~">>

CharSet == {Chars[i] : i \in 1..Len(Chars)}

\* ord(c)
CodePoint == [c \in CharSet |-> 31 + (CHOOSE i \in 1..Len(Chars) : Chars[i] = c)]

NaN == <<"NaN">>

IsNull(v) == v = NaN

Ts(n) == <<"ts", n>>

IsTimestamp(v) == Len(v) = 2 /\ v[1] = "ts"

Num(n) == <<"int", n>>

IsSpace(c) == c = " "

IsDigit(c) == c \in {"0", "1", "2", "3", "4", "5", "6", "7", "8", "9"}

\* str.lower() of one character: A..Z (65..90) move up by 32.
LowerChar(c) ==
  IF CodePoint[c] >= 65 /\ CodePoint[c] <= 90 THEN Chars[CodePoint[c] + 32 - 31] ELSE c

RECURSIVE LStrip(_)
LStrip(t) == IF t # <<>> /\ IsSpace(Head(t)) THEN LStrip(Tail(t)) ELSE t

RECURSIVE RStrip(_)
RStrip(t) ==
  IF t # <<>> /\ IsSpace(t[Len(t)]) THEN RStrip(SubSeq(t, 1, Len(t) - 1)) ELSE t

\* Series.str.strip(): surrounding whitespace removed; a missing value stays missing.
StrStrip(v) == IF IsNull(v) THEN NaN ELSE LStrip(RStrip(v))

\* Series.str.lower(): a missing value stays missing.
StrLower(v) == IF IsNull(v) THEN NaN ELSE [i \in 1..Len(v) |-> LowerChar(v[i])]

\* Python's order of str: by code point, a proper prefix first.
RECURSIVE TextLess(_, _)
TextLess(a, b) ==
  IF b = <<>> THEN FALSE
  ELSE IF a = <<>> THEN TRUE
  ELSE IF Head(a) = Head(b) THEN TextLess(Tail(a), Tail(b))
  ELSE CodePoint[Head(a)] < CodePoint[Head(b)]

RECURSIVE ParseNat(_)
ParseNat(t) == IF t = <<>> THEN 0 ELSE 10 * ParseNat(SubSeq(t, 1, Len(t) - 1)) + (CodePoint[t[Len(t)]] - 48)

AllDigits(t) == t # <<>> /\ \A i \in 1..Len(t) : IsDigit(t[i])

(***************************************************************************)
(* The constants of calculate_report                                       *)
(***************************************************************************)

required_cols == <<"bot", "mobile_number", "outcome", "contacted", "date", "recording_url">>

RequiredSet == {required_cols[i] : i \in 1..Len(required_cols)}

Blank_Bot_Name == <<"B", "l", "a", "n", "k", "_", "B", "o", "t", "_", "N", "a", "m", "e">>

converted_text == <<"c", "o", "n", "v", "e", "r", "t", "e", "d">>

lost_text == <<"l", "o", "s", "t">>

assign_text ==
  <<"a", "s", "s", "i", "g", "n", " ", "t", "o", " ", "l", "i", "v", "e", " ", "a", "g", "e", "n", "t">>

follow_up_exclude == {assign_text, converted_text, lost_text}

MetricNames ==
  <<"Unique leads", "Total Attempts", "Avg Attempts", "Connected", "Connectivity % :",
    "Not Connected", "Follow Up", "Assigned to human agent", "Lost", "Converted">>

lead_summary_flags ==
  {"connected_flag", "not_connected_flag", "converted_flag", "lost_flag",
   "assigned_to_agent_flag", "follow_up_flag"}

(***************************************************************************)
(* Reading the upload                                                      *)
(***************************************************************************)

\* pandas' default na_values held by the sample files: an empty field is read as NaN.
NaValues == {<<>>, <<"N", "A">>, <<"n", "u", "l", "l">>}

ReadCell(t) == IF t \in NaValues THEN NaN ELSE t

\* pd.read_csv / pd.read_excel: every field goes through the default NA filter.
ReadFile(file) ==
  [columns |-> file.columns,
   rows |-> [i \in 1..Len(file.rows) |->
               [c \in file.columns |-> ReadCell(file.rows[i][c])]]]

\* The dtype read_csv infers: a column of a non-empty file whose every field is
\* missing is float64, and Series.str refuses it; otherwise it is object.
IsStringColumn(rows, c) == rows = <<>> \/ \E i \in 1..Len(rows) : ~IsNull(rows[i][c])

(***************************************************************************)
(* calculate_report, line 7: the outcome coercion                          *)
(***************************************************************************)

NormalizeOutcome(v) == StrLower(StrStrip(v))

\* df['outcome'] = df['outcome'].str.strip().str.lower()
CoerceOutcomeColumn(rows) ==
  [i \in 1..Len(rows) |-> [rows[i] EXCEPT !["outcome"] = NormalizeOutcome(@)]]

(***************************************************************************)
(* calculate_report, lines 8-12: the required columns                      *)
(***************************************************************************)

missing_cols(columns) == SelectSeq(required_cols, LAMBDA c : c \notin columns)

SchemaOk(columns) == \A i \in 1..Len(required_cols) : required_cols[i] \in columns

(***************************************************************************)
(* calculate_report, lines 14-21: the field normalizer                     *)
(***************************************************************************)

\* A text of the form YYYY-MM-DD; the sample files hold no other date format.
IsIsoDate(t) ==
  /\ Len(t) = 10
  /\ t[5] = "-"
  /\ t[8] = "-"
  /\ \A i \in {1, 2, 3, 4, 6, 7, 9, 10} : IsDigit(t[i])
  /\ ParseNat(SubSeq(t, 6, 7)) \in 1..12
  /\ ParseNat(SubSeq(t, 9, 10)) \in 1..31

ParseDateText(t) ==
  IF IsIsoDate(t)
    THEN Ts(ParseNat(SubSeq(t, 1, 4)) * 10000 + ParseNat(SubSeq(t, 6, 7)) * 100
            + ParseNat(SubSeq(t, 9, 10)))
    ELSE NaN

\* A to_datetime that parses texts only: a Timestamp is not one and becomes NaT.
ToDatetime_textOnly(v) == IF IsNull(v) \/ IsTimestamp(v) THEN NaN ELSE ParseDateText(v)

\* pd.to_datetime(errors='coerce'): a Timestamp stays, a date text is parsed,
\* anything else (a missing value too) becomes NaT.
ToDatetime(v) ==
  IF IsNull(v) THEN NaN
  ELSE IF IsTimestamp(v) THEN v
  ELSE ParseDateText(v)

\* df.dropna(subset=['date'])
DropNaDate(rows) == SelectSeq(rows, LAMBDA r : ~IsNull(r["date"]))

\* pd.to_numeric(errors='coerce').fillna(0).astype(int)
ToNumeric(v) == IF ~IsNull(v) /\ AllDigits(v) THEN Num(ParseNat(v)) ELSE Num(0)

\* The bot column left as read.
FillBot_unfilled(v) == v

\* fillna('Blank_Bot_Name')
FillBot(v) == IF IsNull(v) THEN Blank_Bot_Name ELSE v

\* fillna('').astype(str).str.strip()
NormalizeUrl(v) == IF IsNull(v) THEN <<>> ELSE StrStrip(v)

\* Line 14: df['date'] = pd.to_datetime(df['date'], errors='coerce')
ParseDateColumn(rows) ==
  [i \in 1..Len(rows) |-> [rows[i] EXCEPT !["date"] = ToDatetime(@)]]

\* Lines 15-21, on the rows whose date column is already parsed.
NormalizeRows(rows) ==
  LET kept == DropNaDate(rows)
  IN [i \in 1..Len(kept) |->
        [kept[i] EXCEPT !["contacted"] = ToNumeric(@),
                        !["bot"] = FillBot(@),
                        !["recording_url"] = NormalizeUrl(@)]]

(***************************************************************************)
(* calculate_report, lines 23-24: the bots and the lead reducer            *)
(***************************************************************************)

Reverse(s) == [i \in 1..Len(s) |-> s[Len(s) + 1 - i]]

Front(s) == SubSeq(s, 1, Len(s) - 1)

RECURSIVE SortTexts(_)
SortTexts(S) ==
  IF S = {} THEN <<>>
  ELSE LET least == CHOOSE k \in S : \A j \in S \ {k} : TextLess(k, j)
       IN <<least>> \o SortTexts(S \ {least})

\* sorted(df['bot'].unique())
AllBots(rows) == SortTexts({rows[i]["bot"] : i \in 1..Len(rows)})

RECURSIVE InsertByDate(_, _)
InsertByDate(r, s) ==
  IF s = <<>> THEN <<r>>
  ELSE IF s[1]["date"][2] <= r["date"][2] THEN <<s[1]>> \o InsertByDate(r, Tail(s))
  ELSE <<r>> \o s

RECURSIVE StableSortByDate(_)
StableSortByDate(rows) ==
  IF rows = <<>> THEN <<>> ELSE InsertByDate(rows[Len(rows)], StableSortByDate(Front(rows)))

\* The default quicksort of sort_values leaves the order of equal dates to the
\* build: it keeps the order of the rows or reverses it.
TieOrders == {"keep", "reverse"}

\* df.sort_values('date'): ascending.
SortValuesDate(rows, tie) ==
  IF tie = "reverse" THEN StableSortByDate(Reverse(rows)) ELSE StableSortByDate(rows)

LeadKey(r) == <<r["bot"], r["mobile_number"]>>

\* groupby(['bot', 'mobile_number']) drops the rows whose key holds a missing value.
LeadKeys(rows) ==
  {LeadKey(rows[i]) : i \in {j \in 1..Len(rows) : ~IsNull(rows[j]["mobile_number"])}}

\* Two attempts of one lead share a date: the only place the order of equal dates shows.
HasTiedAttempts(rows) ==
  \E i, j \in 1..Len(rows) :
     /\ i < j
     /\ ~IsNull(rows[i]["mobile_number"])
     /\ LeadKey(rows[i]) = LeadKey(rows[j])
     /\ rows[i]["date"] = rows[j]["date"]

KeyLess(a, b) == TextLess(a[1], b[1]) \/ (a[1] = b[1] /\ TextLess(a[2], b[2]))

\* groupby(sort=True): the groups in the order of their keys.
RECURSIVE SortKeys(_)
SortKeys(S) ==
  IF S = {} THEN <<>>
  ELSE LET least == CHOOSE k \in S : \A j \in S \ {k} : KeyLess(k, j)
       IN <<least>> \o SortKeys(S \ {least})

\* GroupBy.last(): per column, the last value of the group that is not missing.
RECURSIVE LastNonNull(_, _)
LastNonNull(group, c) ==
  IF group = <<>> THEN NaN
  ELSE IF ~IsNull(group[Len(group)][c]) THEN group[Len(group)][c]
  ELSE LastNonNull(Front(group), c)

\* df.sort_values('date').groupby(['bot', 'mobile_number'], as_index=False).last()
LatestPerLead(rows, tie) ==
  LET sorted == SortValuesDate(rows, tie)
      keys == SortKeys(LeadKeys(rows))
  IN [i \in 1..Len(keys) |->
        LET group == SelectSeq(sorted, LAMBDA r : LeadKey(r) = keys[i])
        IN [c \in RequiredSet |->
              IF c = "bot" THEN keys[i][1]
              ELSE IF c = "mobile_number" THEN keys[i][2]
              ELSE LastNonNull(group, c)]]

(***************************************************************************)
(* calculate_report, lines 41-64: the classifier                           *)
(***************************************************************************)

IsConnected(r) == r["recording_url"] # <<>>

IsNotConnected(r) == r["recording_url"] = <<>>

IsConverted(r) == r["outcome"] = converted_text

IsLost(r) == r["outcome"] = lost_text

IsAssigned(r) == r["outcome"] = assign_text

\* A follow-up test that a missing outcome fails.
IsFollowUp_missingIsNot(r) ==
  ~IsNull(r["outcome"]) /\ ~(r["outcome"] \in follow_up_exclude)

IsFollowUp(r) == ~(r["outcome"] \in follow_up_exclude)

\* Lines 50-55: the flag columns added to latest_per_lead.
WithFlags(r) ==
  [c \in RequiredSet \cup lead_summary_flags |->
     CASE c = "connected_flag" -> IsConnected(r)
       [] c = "not_connected_flag" -> IsNotConnected(r)
       [] c = "converted_flag" -> IsConverted(r)
       [] c = "lost_flag" -> IsLost(r)
       [] c = "assigned_to_agent_flag" -> IsAssigned(r)
       [] c = "follow_up_flag" -> IsFollowUp(r)
       [] OTHER -> r[c]]

lead_summary_cols ==
  {"bot", "mobile_number", "date", "outcome"} \cup lead_summary_flags

SummaryLess(a, b) ==
  TextLess(a["bot"], b["bot"]) \/ (a["bot"] = b["bot"] /\ a["date"][2] > b["date"][2])

RECURSIVE InsertSummary(_, _)
InsertSummary(r, s) ==
  IF s = <<>> THEN <<r>>
  ELSE IF SummaryLess(r, s[1]) THEN <<r>> \o s
  ELSE <<s[1]>> \o InsertSummary(r, Tail(s))

RECURSIVE SortSummary(_)
SortSummary(rows) ==
  IF rows = <<>> THEN <<>> ELSE InsertSummary(rows[Len(rows)], SortSummary(Front(rows)))

\* Lines 57-64: the flagged leads, by bot ascending and date descending.
LeadSummary(flagged) ==
  SortSummary([i \in 1..Len(flagged) |-> [c \in lead_summary_cols |-> flagged[i][c]]])

\* Lines 41-47 and 62: the category tables.
Sheets(latest) ==
  [connected |-> SelectSeq(latest, IsConnected),
   not_connected |-> SelectSeq(latest, IsNotConnected),
   converted |-> SelectSeq(latest, IsConverted),
   lost |-> SelectSeq(latest, IsLost),
   assigned_to_human_agent |-> SelectSeq(latest, IsAssigned),
   follow_up |-> SelectSeq(latest, IsFollowUp),
   lead_summary |-> LeadSummary([i \in 1..Len(latest) |-> WithFlags(latest[i])])]

(***************************************************************************)
(* calculate_report, lines 66-109: the aggregator                          *)
(***************************************************************************)

BotRows(rows, b) == SelectSeq(rows, LAMBDA r : r["bot"] = b)

\* nunique(dropna=False): a missing value counts as one more value.
NUnique_countingMissing(rows) ==
  Cardinality({rows[i]["mobile_number"] : i \in 1..Len(rows)})

\* Series.nunique(): the distinct values that are not missing.
NUnique(rows) == Cardinality({rows[i]["mobile_number"] : i \in 1..Len(rows)} \ {NaN})

\* round(n / d, 2) in hundredths, a tie going to the even hundredth.
Round2(n, d) ==
  LET q == (100 * n) \div d
      r == (100 * n) % d
  IN IF 2 * r < d THEN q
     ELSE IF 2 * r > d THEN q + 1
     ELSE IF q % 2 = 0 THEN q ELSE q + 1

\* A guard that divides by one when there is no lead.
Ratio_clampedDenominator(n, unique_leads) ==
  Round2(n, IF unique_leads > 0 THEN unique_leads ELSE 1)

Ratio(n, unique_leads) == IF unique_leads > 0 THEN Round2(n, unique_leads) ELSE 0

\* The ten cells of one bot, Connected counted over the attempts instead of the
\* latest rows.
BotMetrics_connectedFromAttempts(rows, latest, b) ==
  LET bot_df_all == BotRows(rows, b)
      total_attempts == Len(bot_df_all)
      unique_leads == NUnique(bot_df_all)
      bot_latest == BotRows(latest, b)
      connected_count == NUnique(SelectSeq(bot_df_all, IsConnected))
  IN [m \in {MetricNames[i] : i \in 1..Len(MetricNames)} |->
        CASE m = "Unique leads" -> unique_leads
          [] m = "Total Attempts" -> total_attempts
          [] m = "Avg Attempts" -> Ratio(total_attempts, unique_leads)
          [] m = "Connected" -> connected_count
          [] m = "Connectivity % :" -> Ratio(connected_count, unique_leads)
          [] m = "Not Connected" -> NUnique(SelectSeq(bot_latest, IsNotConnected))
          [] m = "Follow Up" -> NUnique(SelectSeq(bot_latest, IsFollowUp))
          [] m = "Assigned to human agent" -> NUnique(SelectSeq(bot_latest, IsAssigned))
          [] m = "Lost" -> NUnique(SelectSeq(bot_latest, IsLost))
          [] m = "Converted" -> NUnique(SelectSeq(bot_latest, IsConverted))]

\* Lines 67-91: the ten cells of one bot.
BotMetrics(rows, latest, b) ==
  LET bot_df_all == BotRows(rows, b)
      total_attempts == Len(bot_df_all)
      unique_leads == NUnique(bot_df_all)
      bot_latest == BotRows(latest, b)
      connected_count == NUnique(SelectSeq(bot_latest, IsConnected))
  IN [m \in {MetricNames[i] : i \in 1..Len(MetricNames)} |->
        CASE m = "Unique leads" -> unique_leads
          [] m = "Total Attempts" -> total_attempts
          [] m = "Avg Attempts" -> Ratio(total_attempts, unique_leads)
          [] m = "Connected" -> connected_count
          [] m = "Connectivity % :" -> Ratio(connected_count, unique_leads)
          [] m = "Not Connected" -> NUnique(SelectSeq(bot_latest, IsNotConnected))
          [] m = "Follow Up" -> NUnique(SelectSeq(bot_latest, IsFollowUp))
          [] m = "Assigned to human agent" -> NUnique(SelectSeq(bot_latest, IsAssigned))
          [] m = "Lost" -> NUnique(SelectSeq(bot_latest, IsLost))
          [] m = "Converted" -> NUnique(SelectSeq(bot_latest, IsConverted))]

\* Lines 93-107: the summary matrix, metric by bot.
ReportDf(rows, bots, latest) ==
  [index |-> MetricNames,
   columns |-> bots,
   cell |-> [b \in {bots[i] : i \in 1..Len(bots)} |-> BotMetrics(rows, latest, b)]]

(***************************************************************************)
(* calculate_report as a whole, lines 6-109                                *)
(***************************************************************************)

\* Line 7 raises before anything is assigned: KeyError without the column,
\* AttributeError when the column is not of strings.
CoerceError(d) ==
  IF "outcome" \notin d.columns THEN "KeyError"
  ELSE IF ~IsStringColumn(d.rows, "outcome") THEN "AttributeError"
  ELSE "none"

Raised(exc) == [kind |-> "raised", exc |-> exc]

ReturnedNone == [kind |-> "none"]

Returned(report, sheets) ==
  [kind |-> "tables", report_df |-> report, sheets_by_category |-> sheets]

\* What calculate_report(d) gives its caller, the sort's tie order being tie.
CalculateReport(d, tie) ==
  IF CoerceError(d) # "none" THEN Raised(CoerceError(d))
  ELSE IF ~SchemaOk(d.columns) THEN ReturnedNone
  ELSE LET rows == NormalizeRows(ParseDateColumn(CoerceOutcomeColumn(d.rows)))
           latest == LatestPerLead(rows, tie)
           flagged == [i \in 1..Len(latest) |-> WithFlags(latest[i])]
       IN Returned(ReportDf(rows, AllBots(rows), flagged), Sheets(latest))

(***************************************************************************)
(* The sample uploads                                                      *)
(***************************************************************************)

\* The most rows a sample upload holds.
MaxRows == 2

bot_A == <<"A">>

phone_111 == <<"1", "1", "1">>

phone_222 == <<"2", "2", "2">>

url_x == <<"h", "t", "t", "p", ":", "/", "/", "x">>

SampleDates ==
  {<<"n", "o", "t", "-", "a", "-", "d", "a", "t", "e">>,
   <<"2", "0", "2", "4", "-", "0", "1", "-", "0", "1">>,
   <<"2", "0", "2", "4", "-", "0", "1", "-", "0", "2">>}

\* (outcome, contacted, recording_url) as written in the file; an empty field is <<>>.
call_missing == <<<<>>, <<"a", "b", "c">>, <<>>>>

call_converted ==
  <<<<" ", "C", "o", "n", "v", "e", "r", "t", "e", "d", " ">>, <<"1">>, <<" ">>>>

call_lost == <<<<"l", "o", "s", "t">>, <<"1">>, url_x>>

call_assigned ==
  <<<<"A", "s", "s", "i", "g", "n", " ", "t", "o", " ", "L", "i", "v", "e", " ", "A", "g", "e", "n", "t">>,
    <<"0">>, url_x>>

call_busy == <<<<"b", "u", "s", "y">>, <<"1">>, <<" ">> \o url_x>>

SampleCalls == {call_missing, call_converted, call_lost, call_assigned, call_busy}

\* (bot, mobile_number) as written in the file, each with the calls the samples
\* make to it.
SampleLeads ==
  {<<bot_A, phone_111, {call_missing, call_converted, call_lost}>>,
   <<bot_A, phone_222, {call_missing, call_assigned, call_busy}>>,
   <<<<>>, phone_111, {call_missing, call_lost, call_busy}>>,
   <<bot_A, <<>>, {call_missing, call_converted, call_assigned}>>}

FileRow(k, d, c) ==
  [col \in RequiredSet |->
     CASE col = "bot" -> k[1]
       [] col = "mobile_number" -> k[2]
       [] col = "outcome" -> c[1]
       [] col = "contacted" -> c[2]
       [] col = "date" -> d
       [] col = "recording_url" -> c[3]]

SampleRows ==
  UNION {{FileRow(k, d, c) : d \in SampleDates, c \in k[3]} : k \in SampleLeads}

SeqsUpTo(S, n) == UNION {[1..k -> S] : k \in 0..n}

\* Uploads with every required column.
FullUploads == {[columns |-> RequiredSet, rows |-> s] : s \in SeqsUpTo(SampleRows, MaxRows)}

\* Uploads without some required columns: no row or one row.
PartialRows == {FileRow(<<bot_A, phone_111>>, d, c) : d \in SampleDates, c \in SampleCalls}

PartialUploads ==
  {[columns |-> cs, rows |-> [i \in 1..Len(s) |-> [c \in cs |-> s[i][c]]]] :
     cs \in (SUBSET RequiredSet) \ {{}, RequiredSet}, s \in SeqsUpTo(PartialRows, 1)}

NoFrame == [columns |-> {}, rows |-> <<>>]

NoSheets ==
  [connected |-> <<>>, not_connected |-> <<>>, converted |-> <<>>, lost |-> <<>>,
   assigned_to_human_agent |-> <<>>, follow_up |-> <<>>, lead_summary |-> <<>>]

Pending == [kind |-> "pending"]

NoError == [kind |-> "none"]

(***************************************************************************)
(* The state machine                                                       *)
(***************************************************************************)

Init ==
  /\ upload \in FullUploads \cup PartialUploads
  /\ tie_order = "unset"
  /\ pc = "upload"
  /\ raw_df = NoFrame
  /\ df = <<>>
  /\ all_bots = <<>>
  /\ latest_per_lead = <<>>
  /\ sheets_by_category = NoSheets
  /\ ret = Pending
  /\ st_error = NoError
  /\ first = Pending

\* Lines 169-179: the upload is read and calculate_report(raw_df) is called.
ReadUpload ==
  /\ pc = "upload"
  /\ raw_df' = ReadFile(upload)
  /\ pc' = "called"
  /\ UNCHANGED <<upload, tie_order, df, all_bots, latest_per_lead, sheets_by_category,
                 ret, st_error, first>>

\* Line 7, and lines 204-206 when it raises.
CoerceOutcome ==
  /\ pc = "called"
  /\ IF CoerceError(raw_df) # "none"
       THEN /\ ret' = Raised(CoerceError(raw_df))
            /\ st_error' = [kind |-> "exception", exc |-> CoerceError(raw_df)]
            /\ pc' = "returned"
            /\ UNCHANGED raw_df
       ELSE /\ raw_df' = [raw_df EXCEPT !.rows = CoerceOutcomeColumn(@)]
            /\ pc' = "coerced"
            /\ UNCHANGED <<ret, st_error>>
  /\ UNCHANGED <<upload, tie_order, df, all_bots, latest_per_lead, sheets_by_category, first>>

\* Lines 8-12.
CheckSchema ==
  /\ pc = "coerced"
  /\ IF SchemaOk(raw_df.columns)
       THEN /\ pc' = "validated"
            /\ UNCHANGED <<ret, st_error>>
       ELSE /\ st_error' = [kind |-> "schema", missing |-> missing_cols(raw_df.columns)]
            /\ ret' = ReturnedNone
            /\ pc' = "returned"
  /\ UNCHANGED <<upload, tie_order, raw_df, df, all_bots, latest_per_lead,
                 sheets_by_category, first>>

\* Lines 14-21: the date column is parsed in the caller's frame; the rest happens
\* in the frame dropna returns.
Normalize ==
  /\ pc = "validated"
  /\ raw_df' = [raw_df EXCEPT !.rows = ParseDateColumn(@)]
  /\ df' = NormalizeRows(raw_df'.rows)
  /\ pc' = "normalized"
  /\ UNCHANGED <<upload, tie_order, all_bots, latest_per_lead, sheets_by_category,
                 ret, st_error, first>>

\* Lines 23-24.  The build's order of equal dates is met at the first sort that has
\* two attempts of a lead to order, and is the same at every later sort; a sort
\* without such attempts shows none.
Reduce ==
  /\ pc = "normalized"
  /\ all_bots' = AllBots(df)
  /\ \E t \in TieOrders :
        /\ IF tie_order # "unset" THEN t = tie_order
           ELSE HasTiedAttempts(df) \/ t = "keep"
        /\ tie_order' = IF HasTiedAttempts(df) THEN t ELSE tie_order
        /\ latest_per_lead' = LatestPerLead(df, t)
  /\ pc' = "reduced"
  /\ UNCHANGED <<upload, raw_df, df, sheets_by_category, ret, st_error, first>>

\* Lines 41-64.
Classify ==
  /\ pc = "reduced"
  /\ sheets_by_category' = Sheets(latest_per_lead)
  /\ latest_per_lead' = [i \in 1..Len(latest_per_lead) |-> WithFlags(latest_per_lead[i])]
  /\ pc' = "classified"
  /\ UNCHANGED <<upload, tie_order, raw_df, df, all_bots, ret, st_error, first>>

\* Lines 66-109.
Aggregate ==
  /\ pc = "classified"
  /\ ret' = Returned(ReportDf(df, all_bots, latest_per_lead), sheets_by_category)
  /\ pc' = "returned"
  /\ UNCHANGED <<upload, tie_order, raw_df, df, all_bots, latest_per_lead,
                 sheets_by_category, st_error, first>>

\* calculate_report is called once more on the same frame; its locals start afresh.
CallAgain ==
  /\ pc = "returned"
  /\ first = Pending
  /\ first' = [kind |-> "saved", ret |-> ret, st_error |-> st_error]
  /\ pc' = "called"
  /\ df' = <<>>
  /\ all_bots' = <<>>
  /\ latest_per_lead' = <<>>
  /\ sheets_by_category' = NoSheets
  /\ ret' = Pending
  /\ st_error' = NoError
  /\ UNCHANGED <<upload, tie_order, raw_df>>

Next ==
  \/ ReadUpload
  \/ CoerceOutcome
  \/ CheckSchema
  \/ Normalize
  \/ Reduce
  \/ Classify
  \/ Aggregate
  \/ CallAgain

Spec == Init /\ [][Next]_vars

TypeOk == pc \in {"upload", "called", "coerced", "validated", "normalized", "reduced",
                  "classified", "returned"}

(***************************************************************************)
(* Properties                                                              *)
(***************************************************************************)

FirstCall == first = Pending

Tables == pc = "returned" /\ ret.kind = "tables"

Report == ret.report_df

Bots == {Report.columns[i] : i \in 1..Len(Report.columns)}

Cell(m, b) == Report.cell[b][m]

Range(s) == {s[i] : i \in 1..Len(s)}

MissingSet == RequiredSet \ upload.columns

\* C1: when required columns are absent the run ends in the schema error that
\* names exactly the absent columns, nothing is returned and no later stage ran,
\* whichever columns are absent.
C1_SchemaErrorNamesMissing ==
  (pc = "returned" /\ MissingSet # {}) =>
     /\ st_error.kind = "schema"
     /\ Range(st_error.missing) = MissingSet
     /\ ret = ReturnedNone
     /\ df = <<>> /\ latest_per_lead = <<>> /\ sheets_by_category = NoSheets

\* Beside C1: where line 7 does not raise, the schema error names the absent columns.
SchemaErrorWithOutcomeColumn ==
  (pc = "returned" /\ MissingSet # {} /\ CoerceError(ReadFile(upload)) = "none") =>
     /\ st_error.kind = "schema"
     /\ Range(st_error.missing) = MissingSet
     /\ ret = ReturnedNone

Attempts(rows, k) == SelectSeq(rows, LAMBDA r : LeadKey(r) = k)

DistinctDates(rows) ==
  \A i, j \in 1..Len(rows) : i # j => rows[i]["date"] # rows[j]["date"]

IsLatestOf(r, rows) == \A j \in 1..Len(rows) : rows[j]["date"][2] <= r["date"][2]

\* C2: a lead whose attempts have pairwise distinct timestamps is reduced to its
\* attempt with the greatest timestamp, every field being that attempt's.
C2_LatestIsMaxAttempt ==
  pc = "reduced" =>
    /\ {LeadKey(latest_per_lead[i]) : i \in 1..Len(latest_per_lead)} = LeadKeys(df)
    /\ \A i \in 1..Len(latest_per_lead) :
         LET attempts == Attempts(df, LeadKey(latest_per_lead[i]))
         IN DistinctDates(attempts) =>
              \E j \in 1..Len(attempts) :
                 /\ IsLatestOf(attempts[j], attempts)
                 /\ latest_per_lead[i] = attempts[j]

\* C3: in every column of the summary, Connected + Not Connected = Unique leads.
C3_ConnectedPlusNotConnected ==
  Tables => \A b \in Bots :
     /\ Cell("Unique leads", b) = Cardinality({k \in LeadKeys(df) : k[1] = b})
     /\ Cell("Connected", b) + Cell("Not Connected", b) = Cell("Unique leads", b)

C3_Witness ==
  /\ Tables
  /\ \E b \in Bots : Cell("Connected", b) >= 1 /\ Cell("Not Connected", b) >= 1

LeadSummaryRows == ret.sheets_by_category.lead_summary

FlagCount(r, flags) == Cardinality({f \in flags : r[f]})

\* C4: every row of lead_summary has exactly one of connected_flag and
\* not_connected_flag (connected iff the lead's recording_url is not empty), at
\* most one of converted_flag, lost_flag and assigned_to_agent_flag, and
\* follow_up_flag iff none of those three, iff the outcome is not one of "assign
\* to live agent", "converted", "lost" (a missing outcome is a follow-up).
C4_FlagsPartition ==
  Tables =>
    /\ {LeadKey(LeadSummaryRows[i]) : i \in 1..Len(LeadSummaryRows)} = LeadKeys(df)
    /\ \A i \in 1..Len(LeadSummaryRows) :
         LET s == LeadSummaryRows[i]
         IN /\ FlagCount(s, {"connected_flag", "not_connected_flag"}) = 1
            /\ \E j \in 1..Len(latest_per_lead) :
                  /\ LeadKey(latest_per_lead[j]) = LeadKey(s)
                  /\ s["connected_flag"] <=> (latest_per_lead[j]["recording_url"] # <<>>)
            /\ FlagCount(s, {"converted_flag", "lost_flag", "assigned_to_agent_flag"}) <= 1
            /\ s["follow_up_flag"] <=>
                 (FlagCount(s, {"converted_flag", "lost_flag", "assigned_to_agent_flag"}) = 0)
            /\ s["follow_up_flag"] <=> (s["outcome"] \notin follow_up_exclude)

C4_Witness ==
  /\ Tables
  /\ \E i, j \in 1..Len(LeadSummaryRows) :
        /\ IsNull(LeadSummaryRows[i]["outcome"]) /\ LeadSummaryRows[i]["follow_up_flag"]
        /\ LeadSummaryRows[j]["converted_flag"] /\ LeadSummaryRows[j]["not_connected_flag"]

ParsableDate(r) == ~IsNull(ToDatetime(ReadCell(r["date"])))

WithoutUnparsable(file) == [file EXCEPT !.rows = SelectSeq(@, ParsableDate)]

\* C5: the rows whose date cannot be parsed change nothing: the result is the
\* result of the upload without them.
C5_UnparsableRowsIgnored ==
  (pc = "returned" /\ FirstCall /\ SchemaOk(upload.columns)) =>
     ret = CalculateReport(ReadFile(WithoutUnparsable(upload)), tie_order)

\* Beside C5: where line 7 raises neither on the upload nor on the upload without
\* those rows, the rows change nothing.
UnparsableRowsIgnoredWhenCoerced ==
  (/\ pc = "returned" /\ FirstCall /\ SchemaOk(upload.columns)
   /\ CoerceError(ReadFile(upload)) = "none"
   /\ CoerceError(ReadFile(WithoutUnparsable(upload))) = "none") =>
     ret = CalculateReport(ReadFile(WithoutUnparsable(upload)), tie_order)

\* C6: nothing is coerced before the required columns have been checked, and a
\* failed check leaves the caller's frame as it was read.
C6_SchemaCheckFirst ==
  (FirstCall /\ (pc \in {"called", "coerced"} \/ (pc = "returned" /\ ret.kind # "tables"))) =>
     raw_df = ReadFile(upload)

\* C7: a bot without a lead has Avg Attempts 0.0 and Connectivity % 0.0, and its
\* attempts are still counted.
C7_ZeroLeadsZeroRatios ==
  Tables => \A b \in Bots :
     Cell("Unique leads", b) = 0 =>
        /\ Cell("Avg Attempts", b) = 0
        /\ Cell("Connectivity % :", b) = 0
        /\ Cell("Total Attempts", b) = Len(BotRows(df, b))
        /\ Cell("Total Attempts", b) > 0

C7_Witness ==
  /\ Tables
  /\ \E b \in Bots : Cell("Unique leads", b) = 0 /\ Cell("Total Attempts", b) > 1

NoBot == {NaN, <<>>}

BlankInFile(r) == ParsableDate(r) /\ ReadCell(r["bot"]) \in {NaN, Blank_Bot_Name}

BlankAttempts == Len(SelectSeq(upload.rows, BlankInFile))

\* C8: after normalization no attempt, no latest row and no summary column has a
\* missing or empty bot; the attempts read without a bot are those of
\* "Blank_Bot_Name".
C8_BlankBotSentinel ==
  (pc \in {"normalized", "reduced", "classified"} \/ Tables) =>
     /\ \A i \in 1..Len(df) : df[i]["bot"] \notin NoBot
     /\ \A i \in 1..Len(latest_per_lead) : latest_per_lead[i]["bot"] \notin NoBot
     /\ \A i \in 1..Len(all_bots) : all_bots[i] \notin NoBot
     /\ Len(BotRows(df, Blank_Bot_Name)) = BlankAttempts
     /\ Tables =>
          /\ Bots \cap NoBot = {}
          /\ BlankAttempts > 0 =>
               /\ Blank_Bot_Name \in Bots
               /\ Cell("Total Attempts", Blank_Bot_Name) = BlankAttempts

C8_Witness ==
  /\ Tables
  /\ BlankAttempts > 0
  /\ Cell("Unique leads", Blank_Bot_Name) = 1
  /\ \E i \in 1..Len(upload.rows) : upload.rows[i]["bot"] = <<>>

\* C9: a second call on the frame the first call left returns what the first
\* call returned.
C9_SecondCallSameResult ==
  (pc = "returned" /\ first.kind = "saved") => (ret = first.ret /\ st_error = first.st_error)

C9_Witness ==
  /\ pc = "returned"
  /\ first.kind = "saved"
  /\ ret.kind = "tables"
  /\ Len(df) = 1
  /\ Len(upload.rows) = 2
  /\ \E i \in 1..Len(raw_df.rows) :
        ReadFile(upload).rows[i]["outcome"] # raw_df.rows[i]["outcome"]

SheetCount(sheet, b) == Len(BotRows(sheet, b))

\* C10: every category count of the summary is the number of rows of that bot in
\* the category's table, so Follow Up + Assigned to human agent + Lost + Converted
\* = Connected + Not Connected.
C10_SummaryMatchesSheets ==
  Tables => \A b \in Bots :
     LET sheets == ret.sheets_by_category
     IN /\ Cell("Connected", b) = SheetCount(sheets.connected, b)
        /\ Cell("Not Connected", b) = SheetCount(sheets.not_connected, b)
        /\ Cell("Converted", b) = SheetCount(sheets.converted, b)
        /\ Cell("Lost", b) = SheetCount(sheets.lost, b)
        /\ Cell("Assigned to human agent", b) = SheetCount(sheets.assigned_to_human_agent, b)
        /\ Cell("Follow Up", b) = SheetCount(sheets.follow_up, b)
        /\ Cell("Follow Up", b) + Cell("Assigned to human agent", b) + Cell("Lost", b)
             + Cell("Converted", b)
           = Cell("Connected", b) + Cell("Not Connected", b)

C10_Witness ==
  /\ Tables
  /\ \E b \in Bots :
        /\ Cell("Lost", b) = 1
        /\ Cell("Assigned to human agent", b) = 1
        /\ Cell("Connected", b) = 2

====
